---- MODULE Spec2Model ----
(***************************************************************************)
(* The upload widget of src/main.rs: a yew component (App) owning a        *)
(* Button (face + custom faces), an optional database handle and one file  *)
(* picker listener, with the asynchronous tasks build_database,            *)
(* async_read_buttons and store_button running against an IndexedDB        *)
(* object store with a unique index on (name, lastModified, size, type).   *)
(***************************************************************************)
EXTENDS Naturals, Sequences, FiniteSets, TLC

\* ------------------------------------------------------------------ bounds
\* distinct (name, lastModified, size, type) tuples among the files a user picks
MaxTuples == 1
\* file dialogs open at the same time
MaxPickers == 2
\* store_button tasks alive at the same time (chosen files not yet handled included)
MaxTasks == 1
\* App: custom faces shown in one session
MaxCustom == 2
\* ButtonSpec: length of custom_faces, size of the reference pool, length of
\* one bulk load, and number of consecutive flips that are tracked
MaxFaces == 3
MaxRefs == 3
MaxLoad == 2
\* StoreSpec: files whose StoreButton messages are queued at the start
MaxInserts == 3
MaxFlips == MaxFaces + 4

Tuples == 1..MaxTuples
Refs == 1..MaxRefs

VARIABLES
    button_face,      \* App.button.button_face
    custom_faces,     \* App.button.custom_faces
    db,               \* App.db is Some
    change_listener,  \* App.change_listener is Some
    pickers,          \* open file dialogs: that of the element change_listener
                      \* listens to (current), those of elements whose listener
                      \* was dropped (stale)
    msgs,             \* messages sent to the component, not yet handled by update
    build,            \* position of the build_database task
    read,             \* position and locals of read_buttons / async_read_buttons
    tasks,            \* store_button tasks awaiting array_buffer(): how many per file
    txq,              \* open IndexedDB transactions in creation order: 0 is the
                      \* read-only one of read_buttons, f > 0 the read-write one of
                      \* a store_button task for file f, whose task awaits add()
    committing,       \* the add of the oldest transaction succeeded: its task awaits done()
    store,            \* committed records of the "buttons" object store, in key order
    next_url,         \* object URLs created so far in this session
    ret,              \* return value of the last update (TRUE = re-render)
    panicked,         \* a panic (index out of bounds, usize underflow) happened
    hist              \* ButtonSpec only: the last Button call and what preceded it

appVars == <<db, change_listener, pickers, msgs, build, read, tasks, txq, committing,
             store, next_url>>
vars == <<button_face, custom_faces, db, change_listener, pickers, msgs, build, read,
          tasks, txq, committing, store, next_url, ret, panicked, hist>>

\* ------------------------------------------------------------ ButtonFace
Top == [tag |-> "Top", i |-> 0]
Bottom == [tag |-> "Bottom", i |-> 0]
Custom(n) == [tag |-> "Custom", i |-> n]

\* faces.len() - 1 underflows (panics in a debug build) on an empty list
incr_underflows(face, faces) == face.tag = "Custom" /\ Len(faces) = 0

\* variant: Bottom goes to Custom(0) without looking at the list
ButtonFace_incr_no_empty_check(face, faces) ==
    CASE face.tag = "Top" -> Bottom
      [] face.tag = "Bottom" -> Custom(0)
      [] face.tag = "Custom" /\ Len(faces) > 0 /\ face.i < Len(faces) - 1 -> Custom(face.i + 1)
      [] OTHER -> Top

\* variant: the last custom face is compared with len instead of len - 1
ButtonFace_incr_off_by_one(face, faces) ==
    CASE face.tag = "Top" -> Bottom
      [] face.tag = "Bottom" /\ faces = <<>> -> Top
      [] face.tag = "Bottom" /\ faces # <<>> -> Custom(0)
      [] face.tag = "Custom" /\ face.i < Len(faces) -> Custom(face.i + 1)
      [] OTHER -> Top

ButtonFace_incr(face, faces) ==
    CASE face.tag = "Top" -> Bottom
      [] face.tag = "Bottom" /\ faces = <<>> -> Top
      [] face.tag = "Bottom" /\ faces # <<>> -> Custom(0)
      [] face.tag = "Custom" /\ Len(faces) > 0 /\ face.i < Len(faces) - 1 -> Custom(face.i + 1)
      [] OTHER -> Top

\* ---------------------------------------------------------------- Button
Button(face, faces) == [button_face |-> face, custom_faces |-> faces]

Button_incr(b) == Button(ButtonFace_incr(b.button_face, b.custom_faces), b.custom_faces)

\* iter().position(): Some(i), the 0-based index of the first equal entry, as {i};
\* None as {}
position(faces, url) ==
    {k - 1 : k \in {n \in 1..Len(faces) :
                       faces[n] = url /\ \A j \in 1..(n - 1) : faces[j] # url}}

\* variant: the face index is taken after the push
Button_add_custom_index_after_push(b, url) ==
    LET p == position(b.custom_faces, url) IN
    IF p # {}
    THEN Button(Custom(CHOOSE i \in p : TRUE), b.custom_faces)
    ELSE Button(Custom(Len(b.custom_faces) + 1), Append(b.custom_faces, url))

\* variant: no lookup, the url is always pushed
Button_add_custom_always_push(b, url) ==
    Button(Custom(Len(b.custom_faces)), Append(b.custom_faces, url))

Button_add_custom(b, url) ==
    LET p == position(b.custom_faces, url) IN
    IF p # {}
    THEN Button(Custom(CHOOSE i \in p : TRUE), b.custom_faces)
    ELSE Button(Custom(Len(b.custom_faces)), Append(b.custom_faces, url))

\* variant: the face points at the last appended entry
Button_add_selects_last(b, buttons) ==
    IF buttons = <<>>
    THEN [button |-> b, result |-> FALSE]
    ELSE [button |-> Button(Custom(Len(b.custom_faces) + Len(buttons) - 1),
                            b.custom_faces \o buttons),
          result |-> TRUE]

\* variant: no is_empty test
Button_add_no_empty_test(b, buttons) ==
    [button |-> Button(Custom(Len(b.custom_faces)), b.custom_faces \o buttons),
     result |-> TRUE]

\* returns the new button and the bool result
Button_add(b, buttons) ==
    IF buttons = <<>>
    THEN [button |-> b, result |-> FALSE]
    ELSE [button |-> Button(Custom(Len(b.custom_faces)), b.custom_faces \o buttons),
          result |-> TRUE]

\* class_and_style indexes custom_faces[*i]: out of bounds panics
class_and_style_panics(b) ==
    b.button_face.tag = "Custom" /\ ~(b.button_face.i < Len(b.custom_faces))

class_and_style(b) ==
    CASE b.button_face.tag = "Top" -> [class |-> "button-wrapper examine", style |-> 0]
      [] b.button_face.tag = "Bottom" -> [class |-> "button-wrapper examine flipped", style |-> 0]
      [] OTHER -> [class |-> "button-wrapper examine",
                   style |-> IF class_and_style_panics(b) THEN 0
                             ELSE b.custom_faces[b.button_face.i + 1]]

\* ------------------------------------------------------------------ Msg
Clicked(a) == [type |-> "Clicked", action |-> a]
StoreButton(f) == [type |-> "StoreButton", file |-> f]
DbBuilt == [type |-> "DbBuilt"]
ButtonsRead(b) == [type |-> "ButtonsRead", buttons |-> b]

\* a record of the object store: the index tuple and the kind of value stored
Record(t, k) == [tuple |-> t, kind |-> k]

\* contents the database "mb" may hold when the first session starts
PriorStores == {<<>>, <<Record(1, "Blob")>>}

NoPickers == [current |-> FALSE, stale |-> 0]
NoTasks == [f \in Tuples |-> 0]
NoRead == [pc |-> "none", files |-> <<>>, url_errs |-> 0]
NoHist == [op |-> "none"]

\* App::default() with build_database spawned (App::create)
Fresh ==
    /\ button_face = Top
    /\ custom_faces = <<>>
    /\ db = FALSE
    /\ change_listener = FALSE
    /\ pickers = NoPickers
    /\ msgs = <<>>
    /\ build = "opening"
    /\ read = NoRead
    /\ tasks = NoTasks
    /\ txq = <<>>
    /\ committing = FALSE
    /\ next_url = 0
    /\ ret = FALSE
    /\ panicked = FALSE
    /\ hist = NoHist

Init ==
    /\ Fresh
    /\ store \in PriorStores

Send(m) == msgs' = Append(msgs, m)

\* the view runs after an update that returned true
Render(b, r) == r /\ class_and_style_panics(b)

SetButton(b) ==
    /\ button_face' = b.button_face
    /\ custom_faces' = b.custom_faces

Queued(m) == Cardinality({n \in 1..Len(msgs) : msgs[n] = m})
QueuedOf(type) == Cardinality({n \in 1..Len(msgs) : msgs[n].type = type})
OpenPickers == pickers.stale + (IF pickers.current THEN 1 ELSE 0)

RECURSIVE Sum(_, _)
Sum(f, S) == IF S = {} THEN 0
             ELSE LET x == CHOOSE y \in S : TRUE IN f[x] + Sum(f, S \ {x})

\* store_button tasks that have not returned
LiveTasks == Sum(tasks, Tuples) + Cardinality({n \in 1..Len(txq) : txq[n] # 0})

\* custom faces shown or still to come from messages and from the startup read
FacesToCome ==
    Len(custom_faces) + QueuedOf("StoreButton")
    + Cardinality({n \in 1..Len(msgs) :
                      msgs[n].type = "ButtonsRead" /\ msgs[n].buttons # <<>>})
    + (IF read.pc \in {"none", "get_all"}
       THEN Cardinality({n \in 1..Len(store) : store[n].kind = "Blob"}) ELSE 0)

\* the onclick callback: a click, with or without shift, becomes a Msg; the
\* browser dispatches the next click after the message of the last one was handled
OnClick ==
    /\ QueuedOf("Clicked") = 0
    /\ \E a \in {"Flip", "ChooseImage"} :
          /\ a = "ChooseImage" => OpenPickers < MaxPickers
          /\ Send(Clicked(a))
    /\ UNCHANGED <<button_face, custom_faces, db, change_listener, pickers, build, read,
                   tasks, txq, committing, store, next_url, ret, panicked, hist>>

\* variant: after a successful open the database is opened again
build_database_opens_again ==
    /\ build = "opening"
    /\ \E ok \in BOOLEAN :
          IF ok THEN build' = "opening" /\ Send(DbBuilt)
                ELSE build' = "failed" /\ UNCHANGED msgs
    /\ UNCHANGED <<button_face, custom_faces, db, change_listener, pickers, read, tasks,
                   txq, committing, store, next_url, ret, panicked, hist>>

\* variant: the Err arm sends DbBuilt too
build_database_sends_on_failure ==
    /\ build = "opening"
    /\ \E ok \in BOOLEAN :
          /\ build' = IF ok THEN "built" ELSE "failed"
          /\ Send(DbBuilt)
    /\ UNCHANGED <<button_face, custom_faces, db, change_listener, pickers, read, tasks,
                   txq, committing, store, next_url, ret, panicked, hist>>

build_database ==
    /\ build = "opening"
    /\ \E ok \in BOOLEAN :
          IF ok THEN build' = "built" /\ Send(DbBuilt)
                ELSE build' = "failed" /\ UNCHANGED msgs
    /\ UNCHANGED <<button_face, custom_faces, db, change_listener, pickers, read, tasks,
                   txq, committing, store, next_url, ret, panicked, hist>>

\* variant: no re-render when the face comes back to Top
UpdateFlip_no_render_on_top ==
    /\ msgs # <<>> /\ Head(msgs) = Clicked("Flip")
    /\ msgs' = Tail(msgs)
    /\ LET b == Button_incr(Button(button_face, custom_faces)) IN
          /\ SetButton(b)
          /\ panicked' = (panicked \/ incr_underflows(button_face, custom_faces)
                                   \/ Render(b, b.button_face # Top))
          /\ ret' = (b.button_face # Top)
    /\ UNCHANGED <<db, change_listener, pickers, build, read, tasks, txq, committing, store, next_url, hist>>

\* update, Clicked(Flip)
UpdateFlip ==
    /\ msgs # <<>> /\ Head(msgs) = Clicked("Flip")
    /\ msgs' = Tail(msgs)
    /\ LET b == Button_incr(Button(button_face, custom_faces)) IN
          /\ SetButton(b)
          /\ panicked' = (panicked \/ incr_underflows(button_face, custom_faces)
                                   \/ Render(b, TRUE))
    /\ ret' = TRUE
    /\ UNCHANGED <<db, change_listener, pickers, build, read, tasks, txq, committing, store, next_url, hist>>

\* update, Clicked(ChooseImage): upload_image; the new listener replaces
\* (drops) the one before it, whose dialog may still be open
UpdateChooseImage ==
    /\ msgs # <<>> /\ Head(msgs) = Clicked("ChooseImage")
    /\ msgs' = Tail(msgs)
    /\ \E ok \in BOOLEAN :
          IF ok
          THEN /\ change_listener' = TRUE
               /\ pickers' = [current |-> TRUE,
                              stale |-> pickers.stale + (IF pickers.current THEN 1 ELSE 0)]
          ELSE UNCHANGED <<change_listener, pickers>>
    /\ ret' = TRUE
    /\ panicked' = (panicked \/ Render(Button(button_face, custom_faces), TRUE))
    /\ UNCHANGED <<button_face, custom_faces, db, build, read, tasks, txq, committing, store, next_url, hist>>

\* the dialog of the element change_listener listens to closes: a "change"
\* event with a file, or no usable selection; the once-listener stays in the field
\* variant: the arms without a file send a message too
upload_image_listener_always_sends(f) ==
    /\ FacesToCome < MaxCustom
    /\ LiveTasks + QueuedOf("StoreButton") < MaxTasks
    /\ Send(StoreButton(IF f # 0 THEN f ELSE 1))

\* the closure given to EventListener::once: files.get(0) is file f, or there
\* is none (f = 0: no target, no files, empty selection, dialog dismissed)
upload_image_listener(f) ==
    IF f # 0
    THEN /\ FacesToCome < MaxCustom
         /\ LiveTasks + QueuedOf("StoreButton") < MaxTasks
         /\ Send(StoreButton(f))
    ELSE UNCHANGED msgs

upload_image_change ==
    /\ pickers.current
    /\ pickers' = [pickers EXCEPT !.current = FALSE]
    /\ \E f \in Tuples \cup {0} : upload_image_listener(f)
    /\ UNCHANGED <<button_face, custom_faces, db, change_listener, build, read, tasks,
                   txq, committing, store, next_url, ret, panicked, hist>>

\* variant: the replaced listener is still attached and sends its file
stale_picker_change_still_listening ==
    /\ pickers.stale > 0
    /\ pickers' = [pickers EXCEPT !.stale = @ - 1]
    /\ \E f \in Tuples : Send(StoreButton(f))
    /\ UNCHANGED <<button_face, custom_faces, db, change_listener, build, read,
                   tasks, txq, committing, store, next_url, ret, panicked, hist>>

\* the dialog of an element whose listener was dropped closes
stale_picker_change ==
    /\ pickers.stale > 0
    /\ pickers' = [pickers EXCEPT !.stale = @ - 1]
    /\ UNCHANGED <<button_face, custom_faces, db, change_listener, msgs, build, read,
                   tasks, txq, committing, store, next_url, ret, panicked, hist>>

\* variant: the task is spawned whether or not the handle is there
spawn_store_button_always(handle, ts, file) == [ts EXCEPT ![file] = @ + 1]

\* if let Some(db) = &self.db { spawn_local(store_button(db.clone(), file)) }
spawn_store_button(handle, ts, file) ==
    IF handle THEN [ts EXCEPT ![file] = @ + 1] ELSE ts

\* variant: the task is spawned inside the `if let Ok(url)`
UpdateStoreButton_spawn_needs_url ==
    /\ msgs # <<>> /\ Head(msgs).type = "StoreButton"
    /\ msgs' = Tail(msgs)
    /\ \E url_ok \in BOOLEAN :
          LET b == IF url_ok
                   THEN Button_add_custom(Button(button_face, custom_faces), next_url + 1)
                   ELSE Button(button_face, custom_faces)
          IN /\ SetButton(b)
             /\ next_url' = IF url_ok THEN next_url + 1 ELSE next_url
             /\ panicked' = (panicked \/ Render(b, TRUE))
             /\ tasks' = IF url_ok THEN spawn_store_button(db, tasks, Head(msgs).file)
                                   ELSE tasks
    /\ ret' = TRUE
    /\ UNCHANGED <<db, change_listener, pickers, build, read, txq, committing,
                   store, hist>>

\* update, StoreButton(file)
UpdateStoreButton ==
    /\ msgs # <<>> /\ Head(msgs).type = "StoreButton"
    /\ msgs' = Tail(msgs)
    /\ \E url_ok \in BOOLEAN :
          LET b == IF url_ok
                   THEN Button_add_custom(Button(button_face, custom_faces), next_url + 1)
                   ELSE Button(button_face, custom_faces)
          IN /\ SetButton(b)
             /\ next_url' = IF url_ok THEN next_url + 1 ELSE next_url
             /\ panicked' = (panicked \/ Render(b, TRUE))
    /\ tasks' = spawn_store_button(db, tasks, Head(msgs).file)
    /\ ret' = TRUE
    /\ UNCHANGED <<db, change_listener, pickers, build, read, txq, committing,
                   store, hist>>

\* update, DbBuilt(db): read_buttons, then the handle is stored
UpdateDbBuilt ==
    /\ msgs # <<>> /\ Head(msgs) = DbBuilt
    /\ msgs' = Tail(msgs)
    /\ \E out \in {"transaction_err", "store_err", "ok"} :
          IF out = "ok"
          THEN /\ read' = [pc |-> "get_all", files |-> <<>>, url_errs |-> 0]
               /\ txq' = Append(txq, 0)
          ELSE UNCHANGED <<read, txq>>
    /\ db' = TRUE
    /\ ret' = FALSE
    /\ UNCHANGED <<button_face, custom_faces, change_listener, pickers, build, tasks,
                   committing, store, next_url, panicked, hist>>

\* the filter_map of async_read_buttons: a record that is a Blob and whose
\* object URL can be created yields that URL, every other record is dropped
RECURSIVE filter_map(_, _, _, _)
filter_map(files, k, fails, next) ==
    IF k > Len(files) THEN <<>>
    ELSE IF files[k].kind = "Blob" /\ k \notin fails
         THEN <<next + 1>> \o filter_map(files, k + 1, fails, next + 1)
         ELSE filter_map(files, k + 1, fails, next)

\* resumes after get_all(), which runs when the read-only transaction is the
\* oldest open one
async_read_buttons ==
    /\ read.pc = "get_all"
    /\ txq # <<>> /\ Head(txq) = 0
    /\ txq' = Tail(txq)
    /\ \E ok \in BOOLEAN :
          IF ok
          THEN \E fails \in SUBSET {k \in 1..Len(store) : store[k].kind = "Blob"} :
                 LET buttons == filter_map(store, 1, fails, next_url) IN
                   /\ Send(ButtonsRead(buttons))
                   /\ next_url' = next_url + Len(buttons)
                   /\ read' = [pc |-> "sent", files |-> store,
                               url_errs |-> Cardinality(fails)]
          ELSE /\ read' = [read EXCEPT !.pc = "failed"]
               /\ UNCHANGED <<msgs, next_url>>
    /\ UNCHANGED <<button_face, custom_faces, db, change_listener, pickers, build, tasks,
                   committing, store, ret, panicked, hist>>

\* update, ButtonsRead(buttons)
UpdateButtonsRead ==
    /\ msgs # <<>> /\ Head(msgs).type = "ButtonsRead"
    /\ msgs' = Tail(msgs)
    /\ LET r == Button_add(Button(button_face, custom_faces), Head(msgs).buttons) IN
          /\ SetButton(r.button)
          /\ ret' = r.result
          /\ panicked' = (panicked \/ Render(r.button, r.result))
    /\ UNCHANGED <<db, change_listener, pickers, build, read, tasks, txq, committing, store, next_url, hist>>

\* ---------------------------------------------------------- store_button
\* the paths on which store_button leaves the code after array_buffer(): the
\* four early returns, or on to the add request
array_buffer_outcomes ==
    {"array_buffer_err", "lock_err", "transaction_err", "store_err", "ok"}

\* variant: the new transaction runs ahead of the ones created before it
store_button_array_buffer_runs_first(f) ==
    /\ tasks[f] > 0
    /\ tasks' = [tasks EXCEPT ![f] = @ - 1]
    /\ ~committing
    /\ \E out \in array_buffer_outcomes :
          IF out = "ok" THEN txq' = <<f>> \o txq ELSE UNCHANGED txq
    /\ UNCHANGED <<button_face, custom_faces, db, change_listener, pickers, msgs, build,
                   read, committing, store, next_url, ret, panicked, hist>>

\* a task for file f resumes after file.array_buffer(); then lock, transaction,
\* store and the add request, which run without suspending
store_button_array_buffer(f) ==
    /\ tasks[f] > 0
    /\ tasks' = [tasks EXCEPT ![f] = @ - 1]
    /\ \E out \in array_buffer_outcomes :
          IF out = "ok" THEN txq' = Append(txq, f) ELSE UNCHANGED txq
    /\ UNCHANGED <<button_face, custom_faces, db, change_listener, pickers, msgs, build,
                   read, committing, store, next_url, ret, panicked, hist>>

\* variant: the index is not unique
violates_unique_never(t) == FALSE

\* the unique index "file" rejects a record whose tuple is already stored
violates_unique(t) == \E n \in 1..Len(store) : store[n].tuple = t

\* variant: the add request does not look at the index
add_outcomes_ignores_index(t) == {"ok", "add_err"}

\* what store.add() can resolve to for a record with tuple t: the
\* ConstraintError of the unique index ("That button is already stored"),
\* or Ok, or another error ("Could not store button")
add_outcomes(t) ==
    IF violates_unique(t) THEN {"duplicate"} ELSE {"ok", "add_err"}

\* variant: done is called after a failed add as well
store_button_add_always_done ==
    /\ txq # <<>> /\ Head(txq) # 0 /\ ~committing
    /\ \E out \in add_outcomes(Head(txq)) : committing' = TRUE /\ UNCHANGED txq
    /\ UNCHANGED <<button_face, custom_faces, db, change_listener, pickers, msgs, build,
                   read, tasks, store, next_url, ret, panicked, hist>>

\* variant: a failed add takes the last custom face back
store_button_add_rolls_back ==
    /\ txq # <<>> /\ Head(txq) # 0 /\ ~committing
    /\ \E out \in add_outcomes(Head(txq)) :
          IF out = "ok"
          THEN committing' = TRUE /\ UNCHANGED <<txq, button_face, custom_faces>>
          ELSE /\ txq' = Tail(txq) /\ UNCHANGED committing
               /\ button_face' = Top
               /\ custom_faces' = SubSeq(custom_faces, 1, Len(custom_faces) - 1)
    /\ UNCHANGED <<db, change_listener, pickers, msgs, build,
                   read, tasks, store, next_url, ret, panicked, hist>>

\* the task of the oldest transaction resumes after store.add(); a failed
\* request aborts the transaction, and done() is only called after Ok
store_button_add ==
    /\ txq # <<>> /\ Head(txq) # 0 /\ ~committing
    /\ \E out \in add_outcomes(Head(txq)) :
          IF out = "ok" THEN committing' = TRUE /\ UNCHANGED txq
                        ELSE txq' = Tail(txq) /\ UNCHANGED committing
    /\ UNCHANGED <<button_face, custom_faces, db, change_listener, pickers, msgs, build,
                   read, tasks, store, next_url, ret, panicked, hist>>

\* the task resumes after t.done(): the transaction committed the record, or failed
store_button_done ==
    /\ committing
    /\ committing' = FALSE
    /\ txq' = Tail(txq)
    /\ \E ok \in BOOLEAN :
          IF ok THEN store' = Append(store, Record(Head(txq), "Object"))
                ELSE UNCHANGED store
    /\ UNCHANGED <<button_face, custom_faces, db, change_listener, pickers, msgs, build,
                   read, tasks, next_url, ret, panicked, hist>>

\* the page is loaded again: a new process, the committed records remain
Reload ==
    /\ button_face' = Top
    /\ custom_faces' = <<>>
    /\ db' = FALSE
    /\ change_listener' = FALSE
    /\ pickers' = NoPickers
    /\ msgs' = <<>>
    /\ build' = "opening"
    /\ read' = NoRead
    /\ tasks' = NoTasks
    /\ txq' = <<>>
    /\ committing' = FALSE
    /\ next_url' = 0
    /\ ret' = FALSE
    /\ panicked' = FALSE
    /\ UNCHANGED <<store, hist>>

Next ==
    \/ OnClick
    \/ build_database
    \/ UpdateFlip
    \/ UpdateChooseImage
    \/ upload_image_change
    \/ stale_picker_change
    \/ UpdateStoreButton
    \/ UpdateDbBuilt
    \/ async_read_buttons
    \/ UpdateButtonsRead
    \/ \E f \in Tuples : store_button_array_buffer(f)
    \/ store_button_add
    \/ store_button_done
    \/ Reload

Spec == Init /\ [][Next]_vars

\* --------------------------------------------------------------------------
\* ButtonSpec: the Button methods incr, add_custom and add called in any order
\* on any Button, with arguments drawn from Refs.  hist records the last call
\* (op, url or buttons, result, the Button before it), the Button at the start
\* of the current run of incr calls with the length of that run, and the
\* previous add_custom call when only incr calls followed it.
RECURSIVE SeqsUpTo(_, _)
SeqsUpTo(S, n) ==
    IF n = 0 THEN {<<>>}
    ELSE LET shorter == SeqsUpTo(S, n - 1) IN
         shorter \cup {Append(q, x) : q \in shorter, x \in S}

NoDuplicates(faces) ==
    \A m, n \in 1..Len(faces) : m # n => faces[m] # faces[n]

FacesOf(faces) == {Top, Bottom} \cup {Custom(n - 1) : n \in 1..Len(faces)}

Hist(op, url, buttons, result, pre, start, flips, prior, before) ==
    [op |-> op, url |-> url, buttons |-> buttons, result |-> result, pre |-> pre,
     start |-> start, flips |-> flips, prior |-> prior, before |-> before]

NoPrior == [url |-> 0, face |-> Top, len |-> 0]

InitButton ==
    /\ custom_faces \in {q \in SeqsUpTo(Refs, MaxFaces) : NoDuplicates(q)}
    /\ button_face \in FacesOf(custom_faces)
    /\ hist = Hist("init", 0, <<>>, FALSE, Button(button_face, custom_faces),
                   Button(button_face, custom_faces), 0, NoPrior, NoPrior)
    /\ db = FALSE
    /\ change_listener = FALSE
    /\ pickers = NoPickers
    /\ msgs = <<>>
    /\ build = "opening"
    /\ read = NoRead
    /\ tasks = NoTasks
    /\ txq = <<>>
    /\ committing = FALSE
    /\ store = <<>>
    /\ next_url = 0
    /\ ret = FALSE
    /\ panicked = FALSE

CallIncr ==
    /\ hist.flips < MaxFlips
    /\ LET b == Button_incr(Button(button_face, custom_faces)) IN
          /\ SetButton(b)
          /\ panicked' = (panicked \/ incr_underflows(button_face, custom_faces))
          /\ hist' = [hist EXCEPT !.op = "incr", !.url = 0, !.buttons = <<>>,
                                  !.result = FALSE,
                                  !.pre = Button(button_face, custom_faces),
                                  !.flips = hist.flips + 1]
    /\ UNCHANGED <<appVars, ret>>

CallAddCustom(url) ==
    /\ Len(custom_faces) < MaxFaces \/ \E n \in 1..Len(custom_faces) : custom_faces[n] = url
    /\ LET b == Button_add_custom(Button(button_face, custom_faces), url) IN
          /\ SetButton(b)
          /\ hist' = Hist("add_custom", url, <<>>, FALSE,
                          Button(button_face, custom_faces), b, 0,
                          [url |-> url, face |-> b.button_face,
                           len |-> Len(b.custom_faces)],
                          hist.prior)
    /\ UNCHANGED <<appVars, ret, panicked>>

CallAdd(buttons) ==
    /\ Len(custom_faces) + Len(buttons) <= MaxFaces
    /\ LET r == Button_add(Button(button_face, custom_faces), buttons) IN
          /\ SetButton(r.button)
          /\ hist' = Hist("add", 0, buttons, r.result,
                          Button(button_face, custom_faces), r.button, 0, NoPrior, NoPrior)
    /\ UNCHANGED <<appVars, ret, panicked>>

NextButton ==
    \/ CallIncr
    \/ \E url \in Refs : CallAddCustom(url)
    \/ \E buttons \in SeqsUpTo(Refs, MaxLoad) : CallAdd(buttons)

ButtonSpec == InitButton /\ [][NextButton]_vars

\* --------------------------------------------------------------------------
\* StoreSpec: the store_button tasks on their own.  The database is open and the
\* handle stored, the startup read is over, and the StoreButton messages of up
\* to MaxInserts picked files are queued; update spawns a task for each, and
\* the tasks resume from their await points in any order.
InitStore ==
    /\ button_face = Top
    /\ custom_faces = <<>>
    /\ db = TRUE
    /\ change_listener = TRUE
    /\ pickers = NoPickers
    /\ msgs \in {q \in SeqsUpTo({StoreButton(f) : f \in Tuples}, MaxInserts) : q # <<>>}
    /\ build = "built"
    /\ read = [pc |-> "failed", files |-> <<>>, url_errs |-> 0]
    /\ tasks = NoTasks
    /\ txq = <<>>
    /\ committing = FALSE
    /\ store \in PriorStores
    /\ next_url = 0
    /\ ret = TRUE
    /\ panicked = FALSE
    /\ hist = NoHist

NextStore ==
    \/ UpdateStoreButton
    \/ \E f \in Tuples : store_button_array_buffer(f)
    \/ store_button_add
    \/ store_button_done

StoreSpec == InitStore /\ [][NextStore]_vars

\* --------------------------------------------------------------------------
\* Properties

InFlight(type) == \E n \in 1..Len(msgs) : msgs[n].type = type

\* this session's ButtonsRead was sent and update has handled it
ButtonsReadHandled == read.pc = "sent" /\ ~InFlight("ButtonsRead")

\* C1: whatever messages were handled and whichever storage or picker step
\* failed, a Custom(i) face has i < len(custom_faces), so incr never computes
\* len - 1 on an empty list and class_and_style never indexes out of bounds.
C1_CustomIndexInBounds ==
    /\ button_face.tag = "Custom" => button_face.i < Len(custom_faces)
    /\ ~panicked

\* a Custom face on the last of several entries, after a startup load
C1_Witness ==
    /\ button_face.tag = "Custom"
    /\ Len(custom_faces) >= 2
    /\ button_face.i = Len(custom_faces) - 1
    /\ ButtonsReadHandled

\* C2: once the startup ButtonsRead of a session has been handled (and no
\* object URL failed to be created), custom_faces holds a reference for every
\* record that was in the store at startup, among them the records written by
\* store_button in an earlier session.
C2_PersistedImagesReloaded ==
    (ButtonsReadHandled /\ read.url_errs = 0) => Len(custom_faces) >= Len(read.files)

\* C3: from Top with no custom faces, k calls of incr leave Bottom for odd k and
\* Top for even k, and custom_faces stays empty.
C3_FlipAlternates ==
    hist.start = Button(Top, <<>>) =>
        /\ custom_faces = <<>>
        /\ button_face = IF hist.flips % 2 = 1 THEN Bottom ELSE Top

C3_Witness ==
    /\ hist.start = Button(Top, <<>>)
    /\ hist.flips >= 3
    /\ button_face = Bottom

\* the place of a face on the tour Top, Bottom, Custom(0), Custom(1), ...
TourIndex(face) ==
    CASE face.tag = "Top" -> 0
      [] face.tag = "Bottom" -> 1
      [] OTHER -> face.i + 2

\* C4: with N > 0 custom faces, k calls of incr from any face move it k places
\* along the tour Top, Bottom, Custom(0) .. Custom(N-1), which has N + 2 places
\* and closes on itself; custom_faces is unchanged.
C4_FlipTour ==
    Len(hist.start.custom_faces) > 0 =>
        /\ custom_faces = hist.start.custom_faces
        /\ button_face \in FacesOf(custom_faces)
        /\ TourIndex(button_face) =
              (TourIndex(hist.start.button_face) + hist.flips) % (Len(custom_faces) + 2)

\* a full cycle from a custom face, back on it after N + 2 calls
C4_Witness ==
    /\ Len(hist.start.custom_faces) >= 2
    /\ hist.start.button_face.tag = "Custom"
    /\ hist.flips = Len(custom_faces) + 2
    /\ button_face = hist.start.button_face

\* C5: add_custom(r) on a list without r appends r and selects the new last
\* index; add_custom(r) called again, with only incr calls in between, leaves
\* the length as the first call left it and selects the same Custom(i), with
\* custom_faces[i] = r.
C5_AddCustomIdempotent ==
    hist.op = "add_custom" =>
        /\ button_face.tag = "Custom"
        /\ button_face.i < Len(custom_faces)
        /\ custom_faces[button_face.i + 1] = hist.url
        /\ (\A n \in 1..Len(hist.pre.custom_faces) : hist.pre.custom_faces[n] # hist.url) =>
              /\ custom_faces = Append(hist.pre.custom_faces, hist.url)
              /\ button_face = Custom(Len(custom_faces) - 1)
        /\ hist.before.url = hist.url =>
              /\ Len(custom_faces) = hist.before.len
              /\ button_face = hist.before.face

\* the second of two calls with the same reference, after some incr calls
C5_Witness ==
    /\ hist.op = "add_custom"
    /\ hist.before.url = hist.url
    /\ hist.pre.button_face # button_face
    /\ Len(custom_faces) >= 2

\* C6: custom_faces never holds a reference twice, whatever add_custom and add
\* calls were made, also when add is given a reference that is already present
\* or the same reference twice.
C6_NoDuplicateReference == NoDuplicates(custom_faces)

\* C7: add of a non-empty sequence onto k custom faces keeps those k entries in
\* place, appends the sequence in order, selects Custom(k), the first appended
\* entry, and returns true.
C7_AddAppendsAndSelectsFirst ==
    (hist.op = "add" /\ hist.buttons # <<>>) =>
        /\ custom_faces = hist.pre.custom_faces \o hist.buttons
        /\ button_face = Custom(Len(hist.pre.custom_faces))
        /\ custom_faces[button_face.i + 1] = hist.buttons[1]
        /\ hist.result

\* two references loaded onto an existing list while a custom face was selected
C7_Witness ==
    /\ hist.op = "add"
    /\ Len(hist.buttons) = 2
    /\ hist.pre.custom_faces # <<>>
    /\ hist.pre.button_face.tag = "Custom"
    /\ button_face # hist.pre.button_face

\* C8: handling ButtonsRead with an empty vector changes neither the face nor
\* custom_faces and returns false (no re-render).
C8_EmptyLoadIsNoOp ==
    [][(UpdateButtonsRead /\ Head(msgs).buttons = <<>>) =>
          /\ button_face' = button_face
          /\ custom_faces' = custom_faces
          /\ ret' = FALSE
          /\ panicked' = panicked]_vars

\* the open succeeded on an empty store, the empty load was handled, face Top
C8_Witness ==
    /\ ButtonsReadHandled
    /\ read.files = <<>>
    /\ db
    /\ button_face = Top
    /\ ret = FALSE

Stored(t) == {n \in 1..Len(store) : store[n].tuple = t}

\* C9: for an add of a record whose tuple is already stored the duplicate
\* outcome is the only one (not Ok, not the store error, not a panic): done is
\* not called, nothing is written, nothing the component shows changes, and the
\* store holds exactly one record with that tuple afterwards.
C9_SecondInsertIsDuplicate ==
    [][(store_button_add /\ Stored(Head(txq)) # {}) =>
          /\ add_outcomes(Head(txq)) = {"duplicate"}
          /\ ~committing'
          /\ txq' = Tail(txq)
          /\ store' = store
          /\ Cardinality({n \in 1..Len(store') : store'[n].tuple = Head(txq)}) = 1
          /\ ~panicked'
          /\ UNCHANGED <<button_face, custom_faces, msgs>>]_vars

\* the store was empty when this session read it, store_button has committed a
\* record since, and the add of a second task for the same file is about to run
C9_Witness ==
    /\ read.pc = "sent" /\ read.files = <<>>
    /\ txq # <<>> /\ Head(txq) # 0 /\ ~committing
    /\ store = <<Record(Head(txq), "Object")>>

\* C10: handling StoreButton while the handle is absent spawns no store_button
\* task; a task is only ever spawned by the update that handles a StoreButton
\* with the handle present (so after a successful open), and it is the task for
\* that message's file: a skipped upload is not kept for later.
C10_NoInsertWithoutHandle ==
    [][/\ (UpdateStoreButton /\ ~db) => (tasks' = tasks /\ txq' = txq)
       /\ \A f \in Tuples :
             tasks'[f] > tasks[f] =>
                /\ db /\ build = "built"
                /\ UpdateStoreButton
                /\ Head(msgs).file = f
                /\ tasks' = [tasks EXCEPT ![f] = @ + 1]
       /\ (LiveTasks' > LiveTasks) => (db /\ UpdateStoreButton)]_vars

\* a StoreButton is handled before the DbBuilt that is queued behind it
C10_Witness ==
    /\ ~db
    /\ Len(msgs) = 2
    /\ msgs[1].type = "StoreButton"
    /\ msgs[2] = DbBuilt

\* C11: once the open has failed, no DbBuilt is sent in that process: the
\* handle stays absent, no read transaction, get_all or ButtonsRead exists, no
\* store_button task is spawned and the stored records do not change.  The
\* component goes on handling messages: a StoreButton on the initial Button
\* whose object URL is created gives custom_faces = [url] and Custom(0), and
\* Flip moves the face as ButtonFace::incr says, without a panic.
C11_OpenFailureIsDisplayOnly ==
    /\ [](build = "failed" =>
            /\ ~db
            /\ ~InFlight("DbBuilt") /\ ~InFlight("ButtonsRead")
            /\ read = NoRead
            /\ tasks = NoTasks /\ txq = <<>> /\ ~committing
            /\ ~panicked)
    /\ [][build = "failed" =>
            /\ store' = store
            /\ (build' # "failed" => Reload)
            /\ (UpdateStoreButton /\ next_url' # next_url /\ custom_faces = <<>>) =>
                  /\ custom_faces' = <<next_url'>>
                  /\ button_face' = Custom(0)
                  /\ ret'
            /\ UpdateFlip =>
                  /\ button_face' = ButtonFace_incr(button_face, custom_faces)
                  /\ custom_faces' = custom_faces
                  /\ ret']_vars

\* after a failed open a picked file became the only custom face, and Flip has
\* since moved the face on from Custom(0) to Top
C11_Witness ==
    /\ build = "failed"
    /\ Len(custom_faces) = 1
    /\ button_face = Top
    /\ ret
    /\ msgs = <<>>

\* a store_button task resumes from one of its three await points
store_button_step ==
    \/ \E f \in Tuples : store_button_array_buffer(f)
    \/ store_button_add
    \/ store_button_done

IsPrefix(p, q) == Len(p) <= Len(q) /\ SubSeq(q, 1, Len(p)) = p

\* C12: no step of a store_button task, whichever way the task ends (array
\* buffer, lock, transaction or store failure, duplicate, other add error, done
\* failed or succeeded), sends a message or changes the face, custom_faces, the
\* handle or the listener; and within one process custom_faces only grows at
\* its end, so the face StoreButton added stays.
C12_PersistenceOutcomeLeavesPresentation ==
    [][/\ store_button_step =>
             UNCHANGED <<button_face, custom_faces, db, change_listener, msgs, ret,
                         panicked, next_url>>
       /\ ~Reload => IsPrefix(custom_faces, custom_faces')]_vars

\* a task spawned in this process has committed its record (the startup read
\* found the store empty), every task has ended, and the two faces added by
\* StoreButton are still shown, the later one selected
C12_Witness ==
    /\ read.pc = "sent" /\ read.files = <<>>
    /\ Len(store) = 1 /\ store[1].kind = "Object"
    /\ tasks = NoTasks /\ txq = <<>> /\ msgs = <<>>
    /\ Len(custom_faces) = 2
    /\ button_face = Custom(1)

\* C13: change_listener is one Option slot, and the only dialog whose closing
\* can send a message is that of the listener in the slot.  A ChooseImage that
\* installs a listener while a dialog is open makes that dialog a stale one;
\* the closing of a stale dialog sends nothing and changes nothing else; and a
\* StoreButton is only ever sent by the closing of the current dialog, one
\* message for one dialog.
C13_OneLiveListener ==
    /\ [](pickers.current => change_listener)
    /\ [][~Reload =>
            /\ (UpdateChooseImage /\ pickers' # pickers) =>
                  /\ change_listener' /\ pickers'.current
                  /\ pickers'.stale = pickers.stale + (IF pickers.current THEN 1 ELSE 0)
            /\ pickers'.stale < pickers.stale =>
                  UNCHANGED <<button_face, custom_faces, db, change_listener, msgs, build,
                              read, tasks, txq, committing, store, next_url, ret, panicked>>
            /\ QueuedOf("StoreButton")' > QueuedOf("StoreButton") =>
                  /\ pickers.current /\ ~pickers'.current
                  /\ pickers'.stale = pickers.stale
                  /\ QueuedOf("StoreButton")' = QueuedOf("StoreButton") + 1
                  /\ Len(msgs') = Len(msgs) + 1]_vars

\* a second ChooseImage was handled while the first dialog was still open
C13_Witness ==
    /\ pickers.stale = 1
    /\ pickers.current
    /\ change_listener
    /\ ~InFlight("StoreButton")

\* C14: a ChooseImage whose input element cannot be made installs no listener
\* and opens no dialog, and a dialog that closes without a file sends nothing:
\* in both cases no StoreButton is sent, the face, custom_faces and the stored
\* records are unchanged and no store_button task or transaction is started.
\* A StoreButton that is sent always carries a file.
C14_NoFileNoStoreButton ==
    [][/\ UpdateChooseImage =>
             /\ msgs' = Tail(msgs)
             /\ UNCHANGED <<button_face, custom_faces, store, tasks, txq, committing, db>>
             /\ pickers' = pickers => change_listener' = change_listener
       /\ (upload_image_change /\ upload_image_listener(0)) =>
             UNCHANGED <<msgs, button_face, custom_faces, store, tasks, txq, committing,
                         db, change_listener, next_url, ret, panicked>>
       /\ QueuedOf("StoreButton")' > QueuedOf("StoreButton") =>
             msgs'[Len(msgs')] \in {StoreButton(f) : f \in Tuples}]_vars

\* a listener was installed and its dialog has closed, with the handle present:
\* no dialog is open, no message is queued, no face was added, no task runs
C14_Witness ==
    /\ change_listener
    /\ pickers = NoPickers
    /\ msgs = <<>>
    /\ custom_faces = <<>> /\ button_face = Top
    /\ tasks = NoTasks /\ txq = <<>>
    /\ db /\ read.pc = "sent"
    /\ ret

\* C15: in store_button, done is called exactly when the add returned Ok.  A
\* task comes to await done only in the step in which its add resolves, and
\* only when that add can succeed (the tuple is not stored); an add that fails,
\* the duplicate included, ends the task with its transaction gone and done
\* not called; a task that returns after array_buffer (array buffer, lock,
\* transaction or store failure) places no add and calls no done; a record is
\* only written by a transaction whose task awaits done.
C15_DoneOnlyAfterAddOk ==
    [][/\ store_button_add =>
             /\ committing' <=> txq' = txq
             /\ ~committing' <=> txq' = Tail(txq)
             /\ Stored(Head(txq)) # {} => ~committing'
             /\ store' = store
       /\ (committing' /\ ~committing) =>
             /\ store_button_add
             /\ Stored(Head(txq)) = {}
       /\ \A f \in Tuples :
             store_button_array_buffer(f) =>
                /\ committing' = committing
                /\ store' = store
                /\ txq' = txq \/ txq' = Append(txq, f)
       /\ store' # store => (committing /\ store_button_done)
       /\ store_button_done => (committing /\ ~committing')]_vars

\* the add of a task returned Ok and the task awaits done; two faces are
\* shown and no record is stored yet
C15_Witness ==
    /\ committing
    /\ txq # <<>> /\ Head(txq) # 0
    /\ store = <<>>
    /\ Len(custom_faces) = 2
    /\ db /\ read.pc = "sent"

\* C16: however the store_button tasks in flight interleave at array_buffer,
\* add and done, the store never holds two records with the same tuple: a
\* record is written only for a tuple that is not stored, one record at a time
\* at the end of the store, and once a tuple is stored the add of every other
\* task for it gets the duplicate outcome (no done, nothing written).
C16_UniqueTupleUnderInterleaving ==
    /\ [](\A t \in Tuples : Cardinality(Stored(t)) <= 1)
    /\ [][/\ IsPrefix(store, store')
          /\ Len(store') <= Len(store) + 1
          /\ store' # store =>
                /\ Stored(Head(txq)) = {}
                /\ store' = Append(store, Record(Head(txq), "Object"))
          /\ (store_button_add /\ Stored(Head(txq)) # {}) =>
                /\ ~committing'
                /\ txq' = Tail(txq)]_vars

\* three tasks for the same file, one at each await point: the first awaits
\* done, the second awaits its add behind it, the third awaits array_buffer
C16_Witness ==
    /\ committing
    /\ Len(txq) >= 2
    /\ txq[2] = txq[1]
    /\ tasks[txq[1]] >= 1

\* C17: in one process the open resolves once and at most one DbBuilt is
\* sent; the handle is absent until that DbBuilt is handled, is set by that
\* update only, and is never set again or taken away; the read transaction is
\* created in that update only, get_all resolves at most once and at most one
\* ButtonsRead is sent and handled.
C17_HandleSingleAssignment ==
    /\ [](/\ QueuedOf("DbBuilt") <= 1
          /\ QueuedOf("ButtonsRead") <= 1
          /\ build = "opening" => (~db /\ ~InFlight("DbBuilt"))
          /\ db => (build = "built" /\ ~InFlight("DbBuilt"))
          /\ ~db => (read = NoRead /\ ~InFlight("ButtonsRead"))
          /\ InFlight("ButtonsRead") => read.pc = "sent")
    /\ [][~Reload =>
            /\ db => db'
            /\ (db' /\ ~db) => UpdateDbBuilt
            /\ UpdateDbBuilt => (~db /\ read = NoRead)
            /\ build' # build => (build = "opening" /\ build_database)
            /\ read' # read =>
                  \/ read = NoRead /\ UpdateDbBuilt
                  \/ read.pc = "get_all" /\ async_read_buttons
            /\ QueuedOf("ButtonsRead")' > QueuedOf("ButtonsRead") =>
                  (read.pc = "get_all" /\ read'.pc = "sent")]_vars

\* the handle was stored, the startup load was handled, and an upload and its
\* store_button task have come and gone since: the handle is still there
C17_Witness ==
    /\ db /\ build = "built"
    /\ ButtonsReadHandled
    /\ Len(custom_faces) >= 1
    /\ Len(store) > Len(read.files)
    /\ tasks = NoTasks /\ txq = <<>> /\ msgs = <<>>

\* C18: a click without shift can be sent and a queued Clicked(Flip) can be
\* handled in every reachable state; the update that handles it is one step
\* that returns true, moves the face as ButtonFace::incr says (always to another
\* face, never with a panic) and leaves custom_faces, the handle, the listener,
\* the dialogs, the store, the tasks and the transactions as they were.
C18_FlipAlwaysWorks ==
    /\ [](/\ QueuedOf("Clicked") = 0 =>
               ENABLED (OnClick /\ msgs' = Append(msgs, Clicked("Flip")))
          /\ (msgs # <<>> /\ Head(msgs) = Clicked("Flip")) => ENABLED UpdateFlip)
    /\ [][UpdateFlip =>
            /\ ret'
            /\ ~panicked'
            /\ msgs' = Tail(msgs)
            /\ button_face' = ButtonFace_incr(button_face, custom_faces)
            /\ button_face' # button_face
            /\ UNCHANGED <<custom_faces, db, change_listener, pickers, build, read,
                           tasks, txq, committing, store, next_url>>]_vars

\* a Flip has brought the face back to Top from the last of two custom faces;
\* a store_button task and a file dialog are pending
C18_Witness ==
    /\ ret /\ button_face = Top
    /\ Len(custom_faces) = 2
    /\ LiveTasks >= 1
    /\ pickers.current
    /\ ~InFlight("StoreButton")

\* C19: the update that handles StoreButton(file) adds the face and spawns
\* the task in one step, before any step of that task: a store_button task for
\* the file is spawned exactly when the handle is present, whether or not the
\* object URL was created; with the URL created it becomes the new last entry
\* of custom_faces and the selected face; with no URL the face and custom_faces
\* stay as they were and the task is spawned all the same.
C19_FaceAndInsertIndependent ==
    [][UpdateStoreButton =>
          /\ ret'
          /\ msgs' = Tail(msgs)
          /\ tasks' = IF db THEN [tasks EXCEPT ![Head(msgs).file] = @ + 1] ELSE tasks
          /\ UNCHANGED <<txq, committing, store, db>>
          /\ next_url' # next_url =>
                /\ custom_faces' = Append(custom_faces, next_url')
                /\ button_face' = Custom(Len(custom_faces))
          /\ next_url' = next_url =>
                UNCHANGED <<button_face, custom_faces>>]_vars

\* the only upload of this process got no object URL: a store_button task is
\* in flight for it and no face was added
C19_Witness ==
    /\ db
    /\ read.pc = "sent" /\ read.files = <<>>
    /\ msgs = <<>>
    /\ LiveTasks = 1
    /\ custom_faces = <<>> /\ next_url = 0
    /\ ret

\* C20: the read-only transaction of read_buttons is created by the update
\* that handles DbBuilt, when no store_button task and no transaction exists
\* yet, so it is the oldest of the open transactions for as long as it is
\* open.  Until get_all resolves nothing is written to the store: what get_all
\* returns is the store as the process found it, with no record of an upload
\* of this process.
C20_StartupReadSeesEarlierSessionsOnly ==
    /\ [](/\ \A n \in 1..Len(txq) : txq[n] = 0 => n = 1
          /\ read.pc = "get_all" <=> (txq # <<>> /\ Head(txq) = 0)
          /\ ~db => (tasks = NoTasks /\ txq = <<>>))
    /\ [][~Reload =>
            /\ UpdateDbBuilt => (tasks = NoTasks /\ txq = <<>> /\ tasks' = tasks)
            /\ (~db \/ read.pc = "get_all") => (store' = store /\ ~committing')
            /\ (async_read_buttons /\ read'.pc = "sent") =>
                  /\ read'.files = store
                  /\ Len(msgs'[Len(msgs')].buttons) <= Len(store)]_vars

\* a file was picked and its store_button task has placed its add while
\* get_all is still pending: the task's transaction waits behind the read
C20_Witness ==
    /\ read.pc = "get_all"
    /\ Len(txq) = 2
    /\ txq[1] = 0 /\ txq[2] # 0
    /\ Len(custom_faces) = 1

====
